---- MODULE Spec2Model ----
(***************************************************************************)
(* Model of js/etc/multiParty.js: the multi-recipient envelope built by    *)
(* encrypt, its verification by decrypt, and the module-wide usedIVs       *)
(* registry.  One instance of the module runs per participant; envelopes   *)
(* travel over a wire on which they can be altered.                        *)
(*                                                                         *)
(* Byte strings (CryptoJS WordArrays) are sequences of atoms.  An atom is  *)
(* <<"b", n>> for the byte n, or a digest atom <<"sha512", input>> /       *)
(* <<"hmac", input, key>> standing for the whole 64-byte output of a       *)
(* collision-free hash of that input.  A base64 string is the record       *)
(* [bytes, form]: form 0 is the text Base64.stringify produces, any other  *)
(* form is a different text that Base64.parse maps to the same bytes       *)
(* (characters after the first "=" are ignored by the parser).             *)
(***************************************************************************)
EXTENDS Integers, Sequences, FiniteSets, TLC

VARIABLES usedIVs, wire, last, delivered, calls, passed

vars == <<usedIVs, wire, last, delivered, calls, passed>>

(* ------------------------------ bounds -------------------------------- *)

\* number of distinct values WordArray.random(12) can produce
NIV == 2
\* number of distinct values WordArray.random(64) can produce
NPad == 1
\* number of envelopes the wire holds: the one sent and its altered copies
MaxWire == 2

(* ------------------------- program constants -------------------------- *)

\* bytes of random padding appended to the plaintext
PadLen == 64
\* bytes of a fresh IV
IVLen == 12
\* rounds of SHA512 in the message tag
TagRounds == 8

(* --------------------------- participants ----------------------------- *)

\* nicknames; each runs one instance of the module
Names == {"B", "a", "constructor"}

\* UTF-16 code units of a nickname
CodeUnits(n) ==
    CASE n = "B" -> <<66>>
      [] n = "a" -> <<97>>
      [] n = "constructor" -> <<99, 111, 110, 115, 116, 114, 117, 99, 116, 111, 114>>

\* property names every plain object inherits from Object.prototype
ObjectPrototypeKeys == {"constructor"}

\* private scalars, as newPrivateKey would have drawn them
privateKey == [n \in Names |-> CASE n = "B" -> 2 [] n = "a" -> 3 [] n = "constructor" -> 5]

RECURSIVE scalarMult(_, _)
\* nacl.scalarMult, in the multiplicative group modulo 23
scalarMult(k, p) == IF k = 0 THEN 1 ELSE (p * scalarMult(k - 1, p)) % 23

\* nacl.scalarMult.base
publicKeyFromPrivate(k) == scalarMult(k, 5)

\* the two halves of SHA512(scalarMult(mine, theirs))
sharedSecret(myPrivateKey, theirPublicKey) ==
    LET secret == scalarMult(myPrivateKey, theirPublicKey)
    IN  [message |-> 2 * secret, hmac |-> 2 * secret + 1]

\* a buddy whose key exchange has not completed
NoKey == [none |-> TRUE]

\* the buddy object `me` holds for `them`
Buddy(me, them, resolved) ==
    [nickname |-> them,
     mpSecretKey |-> IF resolved
                     THEN sharedSecret(privateKey[me], publicKeyFromPrivate(privateKey[them]))
                     ELSE NoKey]

(* ------------------------------ bytes --------------------------------- *)

Byte(n) == <<"b", n>>

Bytes(ns) == [i \in 1..Len(ns) |-> Byte(ns[i])]

\* WordArray.random(n), the generator being in state `seed`
Random(n, seed) == [i \in 1..n |-> Byte(seed)]

RECURSIVE Xor(_, _)
Xor(x, y) ==
    IF x = 0 THEN y
    ELSE IF y = 0 THEN x
    ELSE ((x + y) % 2) + 2 * Xor(x \div 2, y \div 2)

\* CryptoJS.enc.Base64
Base64stringify(bytes) == [bytes |-> bytes, form |-> 0]

Base64parse(str) == str.bytes

\* CryptoJS.enc.Utf8.parse of a text given as its code points (below 2048)
RECURSIVE Utf8parse(_)
Utf8parse(text) ==
    IF text = <<>> THEN <<>>
    ELSE LET c == Head(text)
         IN  (IF c < 128 THEN <<Byte(c)>>
              ELSE <<Byte(192 + (c \div 64)), Byte(128 + (c % 64))>>)
             \o Utf8parse(Tail(text))

Malformed == <<-1>>

\* WordArray.toString(CryptoJS.enc.Utf8): the code points, or Malformed
\* where the library throws 'Malformed UTF-8 data'
RECURSIVE Utf8stringify(_)
Utf8stringify(bytes) ==
    IF bytes = <<>> THEN <<>>
    ELSE IF bytes[1][1] # "b" THEN Malformed
    ELSE LET b == bytes[1][2]
         IN  IF b < 128
             THEN LET rest == Utf8stringify(Tail(bytes))
                  IN  IF rest = Malformed THEN Malformed ELSE <<b>> \o rest
             ELSE IF b >= 194 /\ b < 224 /\ Len(bytes) >= 2
                     /\ bytes[2][1] = "b" /\ bytes[2][2] >= 128 /\ bytes[2][2] < 192
             THEN LET rest == Utf8stringify(Tail(Tail(bytes)))
                  IN  IF rest = Malformed THEN Malformed
                      ELSE <<(b - 192) * 64 + (bytes[2][2] - 128)>> \o rest
             ELSE Malformed

(* --------------------------- primitives ------------------------------- *)

\* CryptoJS.SHA512: the 64-byte digest as one atom
SHA512(message) == << <<"sha512", message>> >>

\* HMAC-SHA512, base64
HMAC(msg, key) == Base64stringify(<< <<"hmac", msg, key>> >>)

RECURSIVE Rounds(_, _)
Rounds(message, i) == IF i = 0 THEN message ELSE Rounds(SHA512(message), i - 1)

\* 8 rounds of SHA512, base64
createMessageTag(message) == Base64stringify(Rounds(message, TagRounds))

\* the 12-byte IV zero-extended by one 32-bit word to the counter block
correctIvLength(iv) ==
    LET ivAsArray == Base64parse(iv)
        fill == (4 - (Len(ivAsArray) % 4)) % 4
    IN  ivAsArray \o [i \in 1..(fill + 4) |-> Byte(0)]

RECURSIVE Weigh(_)
\* a number that depends on every byte of the counter block
Weigh(block) ==
    IF block = <<>> THEN 1
    ELSE (block[1][2] + 3 * Weigh(Tail(block))) % 251

\* byte i of the AES key stream for a key and a counter block of weight w
KeyStream(key, w, i) == (key * 31 + w * 7 + i * 13) % 256

\* AES in CTR mode without padding: the data XOR the key stream
CTR(data, key, block) ==
    LET w == Weigh(block)
    IN  [i \in 1..Len(data) |-> Byte(Xor(data[i][2], KeyStream(key, w, i)))]

encryptAES(msg, c, iv) == Base64stringify(CTR(msg, c, correctIvLength(iv)))

decryptAES(msg, c, iv) == CTR(Base64parse(msg), c, correctIvLength(iv))

(* ----------------------------- ordering ------------------------------- *)

RECURSIVE Compare(_, _)
\* -1, 0 or 1: two sequences of numbers, lexicographically
Compare(x, y) ==
    IF x = <<>> /\ y = <<>> THEN 0
    ELSE IF x = <<>> THEN -1
    ELSE IF y = <<>> THEN 1
    ELSE IF x[1] < y[1] THEN -1
    ELSE IF x[1] > y[1] THEN 1
    ELSE Compare(Tail(x), Tail(y))

\* the letter of a code unit, whatever its case
Fold(c) == IF c >= 65 /\ c <= 90 THEN c + 32 ELSE c

\* String.prototype.localeCompare: letters first, lower case before upper
\* case only to break a tie
localeCompare(a, b) ==
    LET ca == CodeUnits(a)
        cb == CodeUnits(b)
        primary == Compare([i \in 1..Len(ca) |-> Fold(ca[i])],
                           [i \in 1..Len(cb) |-> Fold(cb[i])])
    IN  IF primary # 0 THEN primary ELSE Compare(cb, ca)

\* the order of encrypt's comparator, (a, b) => a.nickname.localeCompare(b.nickname)
SenderOrder(a, b) == localeCompare(a, b) < 0

\* the order of Array.prototype.sort() without a comparator: UTF-16 code units
DefaultOrder(a, b) == Compare(CodeUnits(a), CodeUnits(b)) < 0

RECURSIVE SortPairs(_, _)
\* a stable sort of <<key, value>> pairs by the order `before` on keys
SortPairs(pairs, before) ==
    IF pairs = <<>> THEN <<>>
    ELSE LET n == Len(pairs)
             front == SortPairs(SubSeq(pairs, 1, n - 1), before)
         IN  IF \E i \in 1..Len(front) : before[pairs[n][1], front[i][1]]
             THEN LET k == CHOOSE i \in 1..Len(front) :
                               /\ before[pairs[n][1], front[i][1]]
                               /\ \A j \in 1..(i - 1) : ~before[pairs[n][1], front[j][1]]
                  IN  SubSeq(front, 1, k - 1) \o <<pairs[n]>> \o SubSeq(front, k, Len(front))
             ELSE Append(front, pairs[n])

\* the recipients with a secret in the order supplied, unsorted
KeepOrder(recipients) == SelectSeq(recipients, LAMBDA r : r.mpSecretKey # NoKey)

\* the sorted recipients with a secret, but for the first one supplied
SkipFirst(recipients) ==
    LET kept == SelectSeq(recipients, LAMBDA r : r.mpSecretKey # NoKey)
        rest == IF kept = <<>> THEN <<>> ELSE Tail(kept)
        pairs == [i \in 1..Len(rest) |-> <<rest[i].nickname, rest[i]>>]
        sorted == SortPairs(pairs, [k \in Names \X Names |-> SenderOrder(k[1], k[2])])
    IN  [i \in 1..Len(sorted) |-> sorted[i][2]]

\* sortedRecipients of encrypt: the recipients with a secret, by nickname
SortRecipients(recipients) ==
    LET kept == SelectSeq(recipients, LAMBDA r : r.mpSecretKey # NoKey)
        pairs == [i \in 1..Len(kept) |-> <<kept[i].nickname, kept[i]>>]
        sorted == SortPairs(pairs, [k \in Names \X Names |-> SenderOrder(k[1], k[2])])
    IN  [i \in 1..Len(sorted) |-> sorted[i][2]]

\* Object.keys(obj): the own property names
ObjectKeys(obj) ==
    LET n == Cardinality(DOMAIN obj)
    IN  CHOOSE s \in [1..n -> DOMAIN obj] : \A k \in DOMAIN obj : \E i \in 1..n : s[i] = k

\* sortedRecipients of decrypt: Object.keys(encrypted).sort()
SortKeys(encrypted) ==
    LET keys == ObjectKeys(encrypted)
        pairs == [i \in 1..Len(keys) |-> <<keys[i], keys[i]>>]
        sorted == SortPairs(pairs, [k \in Names \X Names |-> DefaultOrder(k[1], k[2])])
    IN  [i \in 1..Len(sorted) |-> sorted[i][2]]

\* `name in obj`: own or inherited
HasProperty(obj, name) == name \in DOMAIN obj \/ name \in ObjectPrototypeKeys

RECURSIVE Concat(_)
\* WordArray.concat over a list of byte strings
Concat(parts) == IF parts = <<>> THEN <<>> ELSE Head(parts) \o Concat(Tail(parts))

\* a registry that never finds anything
includesNothing(array, x) == FALSE

\* a registry of decrypt of its own: only the IVs decrypt registered are found
includesReceived(array, x) ==
    \E i \in 1..Len(passed) : passed[i].op = "decrypt" /\ passed[i].iv = x

\* Array.prototype.includes / indexOf(x) >= 0
includes(array, x) == \E i \in 1..Len(array) : array[i] = x

(* ------------------------------ encrypt ------------------------------- *)

\* the IV drawn for the k-th recipient, base64
DrawIV(seed) == Base64stringify(Random(IVLen, seed))

\* the draws the retry loop of encrypt can leave with: each accepted IV is
\* not in the registry when it is pushed
AcceptedDraws(used, n) ==
    {ivs \in [1..n -> 0..(NIV - 1)] :
        \A k \in 1..n :
            /\ ~includes(used, DrawIV(ivs[k]))
            /\ \A j \in 1..(k - 1) : ivs[j] # ivs[k]}

\* hmacInput: every entry's ciphertext and IV, in the order given
HmacInput(text, order) ==
    Concat([i \in 1..Len(order) |->
               Base64parse(text[order[i]].message) \o Base64parse(text[order[i]].iv)])

\* the bytes hashed into the tag: the padded plaintext and every MAC
TagInput(padded, text, order) ==
    padded \o Concat([i \in 1..Len(order) |-> Base64parse(text[order[i]].hmac)])

\* encrypt(plaintext, recipients), the padding and the accepted IVs given:
\* the envelope and the registry afterwards
encrypt(plaintext, recipients, pad, ivs, used) ==
    LET padded == Utf8parse(plaintext) \o Random(PadLen, pad)
        sortedRecipients == SortRecipients(recipients)
        n == Len(sortedRecipients)
        order == [i \in 1..n |-> sortedRecipients[i].nickname]
        at(name) == CHOOSE i \in 1..n : order[i] = name
        sealed == [name \in {order[i] : i \in 1..n} |->
                     [message |-> encryptAES(padded,
                                             sortedRecipients[at(name)].mpSecretKey.message,
                                             DrawIV(ivs[at(name)])),
                      iv |-> DrawIV(ivs[at(name)])]]
        hmacInput == HmacInput(sealed, order)
        text == [name \in DOMAIN sealed |->
                   [message |-> sealed[name].message,
                    iv |-> sealed[name].iv,
                    hmac |-> HMAC(hmacInput, sortedRecipients[at(name)].mpSecretKey.hmac)]]
    IN  [encrypted |-> [type |-> "message",
                        text |-> text,
                        tag |-> createMessageTag(TagInput(padded, text, order))],
         usedIVs |-> used \o [i \in 1..n |-> DrawIV(ivs[i])]]

(* ------------------------------ decrypt ------------------------------- *)

\* a throw that empties the registry
ThrowCleared(error, used) ==
    [status |-> error, shape |-> "none", plaintext |-> <<>>,
     missingRecipients |-> <<>>, usedIVs |-> <<>>]

\* a throw that takes back the IV registered by a call that then fails the
\* size or the tag check
ThrowRolledBack(error, used) ==
    [status |-> error, shape |-> "none", plaintext |-> <<>>,
     missingRecipients |-> <<>>,
     usedIVs |-> IF error \in {"Size", "Tag"} THEN SubSeq(used, 1, Len(used) - 1) ELSE used]

\* throw: the call ends with an error and returns nothing
Throw(error, used) ==
    [status |-> error, shape |-> "none", plaintext |-> <<>>,
     missingRecipients |-> <<>>, usedIVs |-> used]

\* the comparison of my MAC with the recomputed one (OTR.HLP.compare)
MacMatches(mine, computed) == mine = computed

\* the two checks in the other order
VerifyTagFirst(plaintext, message, sortedRecipients) ==
    IF createMessageTag(TagInput(plaintext, message.text, sortedRecipients)) # message.tag
    THEN "Tag"
    ELSE IF Len(plaintext) < PadLen THEN "Size"
    ELSE "ok"

\* the checks on the decrypted bytes: their size, then the tag over them
\* and every MAC
Verify(plaintext, message, sortedRecipients) ==
    IF Len(plaintext) < PadLen THEN "Size"
    ELSE IF createMessageTag(TagInput(plaintext, message.text, sortedRecipients)) # message.tag
    THEN "Tag"
    ELSE "ok"

\* decrypt(message, sender) run by myName with the buddy list buddies: what
\* it throws or returns, and the registry afterwards
decrypt(message, sender, myName, buddies, used) ==
    LET encrypted == message.text
    IN  IF ~HasProperty(encrypted, myName) THEN Throw("NotForMe", used)
        ELSE IF sender.mpSecretKey = NoKey THEN Throw("MissingKey", used)
        \* encrypted[myName] is then the inherited property, without an hmac
        ELSE IF myName \notin DOMAIN encrypted THEN Throw("TypeError", used)
        ELSE
        LET missingRecipients ==
                SelectSeq(buddies,
                          LAMBDA r : r # sender.nickname /\ ~HasProperty(encrypted, r))
            sortedRecipients == SortKeys(encrypted)
            hmacInput == HmacInput(encrypted, sortedRecipients)
        IN  IF ~MacMatches(encrypted[myName].hmac, HMAC(hmacInput, sender.mpSecretKey.hmac))
            THEN Throw("HMAC", used)
            ELSE IF includes(used, encrypted[myName].iv) THEN Throw("IVReuse", used)
            ELSE
            LET pushed == Append(used, encrypted[myName].iv)
                plaintext == decryptAES(encrypted[myName].message,
                                        sender.mpSecretKey.message,
                                        encrypted[myName].iv)
                verdict == Verify(plaintext, message, sortedRecipients)
            IN  IF verdict # "ok" THEN Throw(verdict, pushed)
                ELSE
                LET decoded == Utf8stringify(SubSeq(plaintext, 1, Len(plaintext) - PadLen))
                IN  IF decoded = Malformed
                    THEN [status |-> "return", shape |-> "string", plaintext |-> <<>>,
                          missingRecipients |-> <<>>, usedIVs |-> pushed]
                    ELSE [status |-> "return", shape |-> "object", plaintext |-> decoded,
                          missingRecipients |-> missingRecipients, usedIVs |-> pushed]

(* ------------------------------ inputs -------------------------------- *)

\* plaintexts, as code points: "hi" and "e-acute"
Texts == {<<104, 105>>, <<233>>}

\* Object.keys(Cryptodog.buddies) in the instance of `me`: the others
possibleRecipients(me) ==
    LET others == Names \ {me}
    IN  CHOOSE l \in others \X others : l[1] # l[2] /\ Compare(CodeUnits(l[1]), CodeUnits(l[2])) < 0

\* lists without repetition of the other participants
Lists(me) ==
    LET others == Names \ {me}
    IN  {<<>>} \cup {<<x>> : x \in others}
        \cup {l \in others \X others : l[1] # l[2]}

\* the recipient lists a caller can hand to encrypt: buddies with or
\* without a resolved secret, in any order
RecipientLists(me) ==
    UNION {{[i \in 1..Len(l) |-> Buddy(me, l[i], res[i])] :
               res \in [1..Len(l) -> BOOLEAN]} : l \in Lists(me)}

\* bodies a modified client seals instead of text and padding: two that
\* are under 64 bytes, and one whose text is not UTF-8
CraftBodies == {<<>>, Bytes(<<104>>), Bytes(<<233>>) \o Random(PadLen, 0)}

(* ------------------------------- wire --------------------------------- *)

\* an envelope on the wire, with where it comes from
Item(message, from, kind, plaintext, to, change) ==
    [message |-> message, from |-> from, kind |-> kind, plaintext |-> plaintext,
     to |-> to, change |-> change]

NoChange == [what |-> "none", how |-> "none", name |-> "none"]

\* another byte string
Flip(bytes) ==
    IF bytes = <<>> THEN <<Byte(1)>>
    ELSE IF bytes[1][1] = "b" THEN [bytes EXCEPT ![1] = Byte(Xor(bytes[1][2], 1))]
    ELSE [bytes EXCEPT ![1] = Byte(0)]

\* a base64 text altered: to other bytes, to its first byte alone, or to
\* another spelling of the same bytes
Alter(str, how) ==
    CASE how = "bytes" -> [str EXCEPT !.bytes = Flip(str.bytes)]
      [] how = "cut" -> [str EXCEPT !.bytes = SubSeq(str.bytes, 1, 1)]
      [] how = "spelling" -> [str EXCEPT !.form = 1 - str.form]

\* an entry whose three texts are empty
EmptyEntry ==
    [message |-> Base64stringify(<<>>), iv |-> Base64stringify(<<>>),
     hmac |-> Base64stringify(<<>>)]

\* an envelope a holder of the sender's secrets makes around `body`
craft(body, me, others, ivs) ==
    LET order == SortKeys([n \in others |-> TRUE])
        at(name) == CHOOSE i \in 1..Len(order) : order[i] = name
        key(name) == Buddy(me, name, TRUE).mpSecretKey
        sealed == [name \in others |->
                     [message |-> encryptAES(body, key(name).message, DrawIV(ivs[at(name)])),
                      iv |-> DrawIV(ivs[at(name)])]]
        hmacInput == HmacInput(sealed, order)
        text == [name \in others |->
                   [message |-> sealed[name].message,
                    iv |-> sealed[name].iv,
                    hmac |-> HMAC(hmacInput, key(name).hmac)]]
    IN  [type |-> "message", text |-> text,
         tag |-> createMessageTag(TagInput(body, text, order))]

(* ------------------------------ actions ------------------------------- *)

NoCall ==
    [op |-> "none", me |-> "none", msg |-> 0, resolved |-> FALSE,
     fresh |-> FALSE, again |-> FALSE, status |-> "none", shape |-> "none",
     plaintext |-> <<>>, missingRecipients |-> <<>>, supplied |-> <<>>,
     before |-> <<>>]

Init ==
    /\ usedIVs = [p \in Names |-> <<>>]
    /\ wire = <<>>
    /\ last = NoCall
    /\ delivered = {}
    /\ calls = <<>>
    /\ passed = <<>>

\* p calls encrypt and sends the envelope
Encrypt(p) ==
    /\ wire = <<>>
    /\ \E plaintext \in Texts, recipients \in RecipientLists(p), pad \in 0..(NPad - 1) :
         \E ivs \in AcceptedDraws(usedIVs[p], Len(SortRecipients(recipients))) :
            LET out == encrypt(plaintext, recipients, pad, ivs, usedIVs[p])
                to == {recipients[i].nickname :
                          i \in {j \in 1..Len(recipients) : recipients[j].mpSecretKey # NoKey}}
            IN  /\ usedIVs' = [usedIVs EXCEPT ![p] = out.usedIVs]
                /\ wire' = <<Item(out.encrypted, p, "encrypt", plaintext, to, NoChange)>>
                /\ last' = [NoCall EXCEPT !.op = "encrypt", !.me = p, !.msg = 1,
                                          !.status = "return", !.supplied = recipients,
                                          !.before = usedIVs[p]]
    /\ UNCHANGED <<delivered, calls, passed>>

\* p calls decrypt on an envelope of the wire, with its buddy object of the
\* sender as it is at that moment
Decrypt(p) ==
    \E i \in 1..Len(wire), resolved \in BOOLEAN :
        /\ wire[i].from # p
        /\ LET sender == Buddy(p, wire[i].from, resolved)
               out == decrypt(wire[i].message, sender, p, possibleRecipients(p), usedIVs[p])
           IN  /\ usedIVs' = [usedIVs EXCEPT ![p] = out.usedIVs]
               /\ last' = [op |-> "decrypt", me |-> p, msg |-> i, resolved |-> resolved,
                           fresh |-> /\ p \in DOMAIN wire[i].message.text
                                     /\ ~includes(usedIVs[p], wire[i].message.text[p].iv),
                           again |-> <<p, i>> \in delivered,
                           status |-> out.status, shape |-> out.shape,
                           plaintext |-> out.plaintext,
                           missingRecipients |-> out.missingRecipients,
                           supplied |-> <<>>,
                           before |-> usedIVs[p]]
               /\ delivered' = IF out.status = "return"
                               THEN delivered \cup {<<p, i>>} ELSE delivered
        /\ UNCHANGED <<wire, calls, passed>>

\* one text of one entry of the envelope made by encrypt is changed in transit
Tamper ==
    /\ Len(wire) < MaxWire
    /\ Len(wire) > 0
    /\ wire[1].kind = "encrypt"
    /\ \E name \in DOMAIN wire[1].message.text,
          what \in {"message", "iv", "hmac"}, how \in {"bytes", "cut", "spelling"} :
         LET m == wire[1].message
             e == m.text[name]
             e2 == CASE what = "message" -> [e EXCEPT !.message = Alter(e.message, how)]
                     [] what = "iv" -> [e EXCEPT !.iv = Alter(e.iv, how)]
                     [] what = "hmac" -> [e EXCEPT !.hmac = Alter(e.hmac, how)]
         IN  /\ e2 # e
             /\ wire' = Append(wire,
                   Item([m EXCEPT !.text = [m.text EXCEPT ![name] = e2]],
                        wire[1].from, "tamper", wire[1].plaintext, wire[1].to,
                        [what |-> what, how |-> how, name |-> name]))
    /\ UNCHANGED <<usedIVs, last, delivered, calls, passed>>

\* the tag of the envelope made by encrypt is changed in transit
Retag ==
    /\ Len(wire) < MaxWire
    /\ Len(wire) > 0
    /\ wire[1].kind = "encrypt"
    /\ \E how \in {"bytes", "spelling"} :
         wire' = Append(wire,
                Item([wire[1].message EXCEPT !.tag = Alter(wire[1].message.tag, how)],
                     wire[1].from, "retag", wire[1].plaintext, wire[1].to,
                     [what |-> "tag", how |-> how, name |-> "none"]))
    /\ UNCHANGED <<usedIVs, last, delivered, calls, passed>>

\* an entry of the envelope made by encrypt is removed in transit
Remove ==
    /\ Len(wire) < MaxWire
    /\ Len(wire) > 0
    /\ wire[1].kind = "encrypt"
    /\ \E name \in DOMAIN wire[1].message.text :
         LET m == wire[1].message
             rest == [n \in (DOMAIN m.text) \ {name} |-> m.text[n]]
         IN  wire' = Append(wire,
                   Item([m EXCEPT !.text = rest], wire[1].from, "remove",
                        wire[1].plaintext, wire[1].to,
                        [what |-> "entry", how |-> "remove", name |-> name]))
    /\ UNCHANGED <<usedIVs, last, delivered, calls, passed>>

\* an entry is added in transit to the envelope made by encrypt: an empty
\* one, or a copy of another entry
Add ==
    /\ Len(wire) < MaxWire
    /\ Len(wire) > 0
    /\ wire[1].kind = "encrypt"
    /\ \E name \in Names \ (DOMAIN wire[1].message.text \cup {wire[1].from}) :
         LET m == wire[1].message
         IN  \E entry \in {EmptyEntry} \cup {m.text[n] : n \in DOMAIN m.text} :
               wire' = Append(wire,
                   Item([m EXCEPT !.text = [n \in (DOMAIN m.text) \cup {name} |->
                                               IF n = name THEN entry ELSE m.text[n]]],
                        wire[1].from, "add", wire[1].plaintext, wire[1].to,
                        [what |-> "entry",
                         how |-> IF entry = EmptyEntry THEN "empty" ELSE "copy",
                         name |-> name]))
    /\ UNCHANGED <<usedIVs, last, delivered, calls, passed>>

\* a modified client of p seals a body of its choice for all the others
Craft(p) ==
    /\ wire = <<>>
    /\ \E body \in CraftBodies, goodTag \in BOOLEAN :
         LET m == craft(body, p, Names \ {p}, [k \in 1..Cardinality(Names \ {p}) |-> k - 1])
         IN  wire' = <<Item(IF goodTag THEN m ELSE [m EXCEPT !.tag = Alter(m.tag, "bytes")],
                            p, "craft", <<>>, Names \ {p},
                            [what |-> "body",
                             how |-> IF goodTag THEN "tagged" ELSE "mistagged",
                             name |-> "none"])>>
    /\ UNCHANGED <<usedIVs, last, delivered, calls, passed>>

Next ==
    \/ \E p \in Names : Encrypt(p)
    \/ \E p \in Names : Decrypt(p)
    \/ Tamper
    \/ Retag
    \/ Remove
    \/ Add
    \/ \E p \in Names : Craft(p)

Spec == Init /\ [][Next]_vars

(* ---------------------- the registry, step by step -------------------- *)

(***************************************************************************)
(* The accesses of one instance to usedIVs, statement by statement.        *)
(* `calls` holds the calls of encrypt and decrypt in progress, `passed`    *)
(* the IVs pushed so far with the operation that pushed each.  encrypt and *)
(* decrypt contain no await, callback or yield, so a call, once entered,   *)
(* runs to its return or throw before another is entered.  Instances share *)
(* no state: one of them is followed.                                      *)
(***************************************************************************)

Instance == "a"

\* the IV texts a decrypted entry can carry: a drawn IV, in either spelling
IVTexts == {[DrawIV(seed) EXCEPT !.form = f] : seed \in 0..(NIV - 1), f \in {0, 1}}

\* calls enter at any time, as threads that share the registry would
EnterAnytime(running) == Len(running) < 2

\* a call is entered only when no call is in progress
CanEnter(running) == running = <<>>

Frame(op, pc, iv, left) == [op |-> op, pc |-> pc, iv |-> iv, left |-> left]

Without(running, i) == SubSeq(running, 1, i - 1) \o SubSeq(running, i + 1, Len(running))

\* decrypt is entered with an envelope that passes the entry, sender-key and
\* HMAC checks and reaches the check of its IV
StepDecryptCall ==
    /\ CanEnter(calls)
    /\ \E iv \in IVTexts : calls' = Append(calls, Frame("decrypt", "check", iv, 0))
    /\ UNCHANGED <<usedIVs, passed, wire, last, delivered>>

\* if (usedIVs.includes(iv)) throw
StepDecryptCheck ==
    \E i \in 1..Len(calls) :
        /\ calls[i].op = "decrypt" /\ calls[i].pc = "check"
        /\ calls' = IF includes(usedIVs[Instance], calls[i].iv)
                    THEN Without(calls, i)
                    ELSE [calls EXCEPT ![i].pc = "push"]
        /\ UNCHANGED <<usedIVs, passed, wire, last, delivered>>

\* usedIVs.push(iv), and the rest of decrypt to its return or throw
StepDecryptPush ==
    \E i \in 1..Len(calls) :
        /\ calls[i].op = "decrypt" /\ calls[i].pc = "push"
        /\ usedIVs' = [usedIVs EXCEPT ![Instance] = Append(@, calls[i].iv)]
        /\ passed' = Append(passed, [op |-> "decrypt", iv |-> calls[i].iv])
        /\ calls' = Without(calls, i)
        /\ UNCHANGED <<wire, last, delivered>>

\* encrypt is entered with n recipients that have a secret
StepEncryptCall ==
    /\ CanEnter(calls)
    /\ \E n \in 1..(Cardinality(Names) - 1) :
         calls' = Append(calls, Frame("encrypt", "draw", DrawIV(0), n))
    /\ UNCHANGED <<usedIVs, passed, wire, last, delivered>>

\* the random source gives the value of `seed`
StepEncryptDrawOf(seed) ==
    \E i \in 1..Len(calls) :
        /\ calls[i].op = "encrypt" /\ calls[i].pc = "draw"
        /\ calls' = [calls EXCEPT ![i].iv = DrawIV(seed), ![i].pc = "test"]
        /\ UNCHANGED <<usedIVs, passed, wire, last, delivered>>

\* iv = Base64.stringify(WordArray.random(12))
StepEncryptDraw == \E seed \in 0..(NIV - 1) : StepEncryptDrawOf(seed)

\* the drawn IV is taken without the test
StepEncryptNoTest ==
    \E i \in 1..Len(calls) :
        /\ calls[i].op = "encrypt" /\ calls[i].pc = "test"
        /\ calls' = [calls EXCEPT ![i].pc = "push"]
        /\ UNCHANGED <<usedIVs, passed, wire, last, delivered>>

\* while (usedIVs.indexOf(iv) >= 0)
StepEncryptTest ==
    \E i \in 1..Len(calls) :
        /\ calls[i].op = "encrypt" /\ calls[i].pc = "test"
        /\ calls' = [calls EXCEPT ![i].pc = IF includes(usedIVs[Instance], calls[i].iv)
                                             THEN "draw" ELSE "push"]
        /\ UNCHANGED <<usedIVs, passed, wire, last, delivered>>

\* usedIVs.push(iv), the entry of this recipient, and on to the next
\* recipient or to the return
StepEncryptPush ==
    \E i \in 1..Len(calls) :
        /\ calls[i].op = "encrypt" /\ calls[i].pc = "push"
        /\ usedIVs' = [usedIVs EXCEPT ![Instance] = Append(@, calls[i].iv)]
        /\ passed' = Append(passed, [op |-> "encrypt", iv |-> calls[i].iv])
        /\ calls' = IF calls[i].left = 1
                    THEN Without(calls, i)
                    ELSE [calls EXCEPT ![i].left = @ - 1, ![i].pc = "draw"]
        /\ UNCHANGED <<wire, last, delivered>>

StepNext ==
    \/ StepDecryptCall
    \/ StepDecryptCheck
    \/ StepDecryptPush
    \/ StepEncryptCall
    \/ StepEncryptDraw
    \/ StepEncryptTest
    \/ StepEncryptPush

StepSpec == Init /\ [][StepNext]_vars

\* the same, with a call in progress running on (nothing suspends it) and a
\* fair random source: a value that can be drawn again and again is drawn
StepFairSpec ==
    /\ StepSpec
    /\ WF_vars(StepEncryptTest)
    /\ WF_vars(StepEncryptPush)
    /\ WF_vars(StepDecryptCheck)
    /\ WF_vars(StepDecryptPush)
    /\ \A seed \in 0..(NIV - 1) : SF_vars(StepEncryptDrawOf(seed))

(* ------------------------------ claims -------------------------------- *)

\* the call `last` describes is a decrypt; Sent is the envelope it was given
Decrypted == last.op = "decrypt"

Sent == wire[last.msg]

MyEntry == Sent.message.text[last.me]

HasEntry == last.me \in DOMAIN Sent.message.text

\* the order in which encrypt processed the recipients of an envelope
EncryptOrder(item) ==
    LET names == ObjectKeys([n \in item.to |-> TRUE])
        sorted == SortRecipients([i \in 1..Len(names) |-> Buddy(item.from, names[i], TRUE)])
    IN  [i \in 1..Len(sorted) |-> sorted[i].nickname]

\* my MAC is the HMAC of the recomputed hmacInput under the sender's key
MacValid ==
    MyEntry.hmac = HMAC(HmacInput(Sent.message.text, SortKeys(Sent.message.text)),
                        Buddy(last.me, Sent.from, TRUE).mpSecretKey.hmac)

\* the bytes my entry decrypts to
Body ==
    decryptAES(MyEntry.message, Buddy(last.me, Sent.from, TRUE).mpSecretKey.message,
               MyEntry.iv)

TagValid ==
    createMessageTag(TagInput(Body, Sent.message.text, SortKeys(Sent.message.text)))
        = Sent.message.tag

\* C1: round trip. Every recipient of an envelope made by encrypt, holding
\* the secret it shares with the sender and not having registered its IV
\* before, decrypts it to the original plaintext, and no error is raised.
C1_RoundTrip ==
    (Decrypted /\ Sent.kind = "encrypt" /\ last.me \in Sent.to /\ last.resolved /\ last.fresh)
        => /\ last.status = "return"
           /\ last.shape = "object"
           /\ last.plaintext = Sent.plaintext

\* C2: for every envelope made by encrypt, decrypt's order of the entries
\* (the sort of the envelope's keys) is the order in which encrypt
\* processed them, so both sides build the same hmacInput.
C2_SameOrder ==
    \A i \in 1..Len(wire) :
        wire[i].kind = "encrypt"
            => LET text == wire[i].message.text
               IN  /\ SortKeys(text) = EncryptOrder(wire[i])
                   /\ HmacInput(text, SortKeys(text)) = HmacInput(text, EncryptOrder(wire[i]))

\* C3: after the ciphertext, the IV or the MAC of one entry of an envelope
\* made by encrypt was changed, decrypt fails with the HMAC or the tag error
\* for every recipient that has an entry, the sender's secret and a fresh IV.
C3_TamperDetected ==
    (Decrypted /\ Sent.kind = "tamper" /\ HasEntry /\ last.resolved /\ last.fresh)
        => last.status \in {"HMAC", "Tag"}

\* C4: after an entry was removed from, or added to, an envelope made by
\* encrypt, decrypt fails with the HMAC error for every recipient that has an
\* entry and the sender's secret.
C4_MembershipBound ==
    (Decrypted /\ Sent.kind \in {"remove", "add"} /\ HasEntry /\ last.resolved)
        => last.status = "HMAC"

\* C5: a recipient's first decrypt of an envelope made by encrypt whose MAC
\* for it verifies returns the plaintext; once a recipient has decrypted an
\* envelope, every later decrypt of that envelope by that recipient with the
\* same sender secret fails with the IV-reuse error; and a call that
\* succeeds found the IV unregistered.
C5_ReplayRejected ==
    Decrypted =>
        /\ (Sent.kind = "encrypt" /\ HasEntry /\ last.resolved /\ MacValid /\ last.fresh)
               => (last.status = "return" /\ last.plaintext = Sent.plaintext)
        /\ (last.again /\ last.resolved) => last.status = "IVReuse"
        /\ last.status = "return" => (last.fresh /\ ~last.again)

C5_Witness == Decrypted /\ last.again /\ last.resolved /\ last.status = "IVReuse"

\* C6: a successful decrypt returns as missingRecipients exactly the known
\* identities that are not the sender and have no entry in the envelope.
C6_MissingExact ==
    (Decrypted /\ last.status = "return" /\ last.shape = "object")
        => last.missingRecipients
             = SelectSeq(possibleRecipients(last.me),
                         LAMBDA r : r # Sent.from /\ r \notin DOMAIN Sent.message.text)

\* the error of the first gate that fails, in the order of the claim
FirstFailingGate ==
    IF ~HasEntry THEN "NotForMe"
    ELSE IF ~last.resolved THEN "MissingKey"
    ELSE IF ~MacValid THEN "HMAC"
    ELSE IF ~last.fresh THEN "IVReuse"
    ELSE IF Len(Body) < PadLen THEN "Size"
    ELSE IF ~TagValid THEN "Tag"
    ELSE "return"

\* C7: decrypt returns only if the six gates hold, and otherwise raises the
\* error of the first gate that fails, in the fixed order; a failing call
\* returns nothing.
C7_GateOrder ==
    Decrypted =>
        /\ last.status = FirstFailingGate
        /\ last.status # "return" => (last.shape = "none" /\ last.plaintext = <<>>)

\* C8 as stated: whenever the ciphertext of my entry is under 64 bytes,
\* decrypt (holding the sender's secret) fails with the size error.
C8_SizeAlways ==
    (Decrypted /\ HasEntry /\ last.resolved /\ Len(Base64parse(MyEntry.message)) < PadLen)
        => last.status = "Size"

\* C8 amended: whenever the envelope passes the entry, sender-key, HMAC and
\* IV-freshness gates and its body for me is under 64 bytes, decrypt fails
\* with the size error, whether or not the tag is right.
C8_SizeBeforeTag ==
    (Decrypted /\ HasEntry /\ last.resolved /\ MacValid /\ last.fresh
        /\ Len(Base64parse(MyEntry.message)) < PadLen)
        => last.status = "Size"

C8_Witness ==
    Decrypted /\ last.status = "Size" /\ HasEntry /\ last.resolved /\ MacValid /\ last.fresh
    /\ Sent.change.how = "mistagged"

\* C9: every decrypt that raises no error returns a plaintext together with
\* the missingRecipients list.
C9_ReturnsBoth ==
    (Decrypted /\ last.status = "return") => last.shape = "object"

\* C10: under any interleaving of the encrypt and decrypt calls of one
\* instance, no two operations proceed past the freshness check with the
\* same IV: an IV is pushed at most once, and the registry holds exactly the
\* IVs that passed.
C10_AtomicFreshness ==
    /\ \A i, j \in 1..Len(passed) : i # j => passed[i].iv # passed[j].iv
    /\ usedIVs[Instance] = [i \in 1..Len(passed) |-> passed[i].iv]

C10_Witness ==
    /\ \E i, j \in 1..Len(passed) : passed[i].op = "encrypt" /\ passed[j].op = "decrypt"
    /\ \E i \in 1..Len(calls) : calls[i].pc = "check" /\ includes(usedIVs[Instance], calls[i].iv)

\* every IV encoding of registry `before` is in registry `after`, at the
\* same place
Kept(before, after) ==
    /\ Len(before) <= Len(after)
    /\ \A i \in 1..Len(before) : after[i] = before[i]

EncryptPassed == {i \in 1..Len(passed) : passed[i].op = "encrypt"}

\* C12: encrypt never reuses an IV. Every IV encrypt has emitted was absent
\* from the registry when it was registered and is in the registry since;
\* it differs from every other IV encoding that passed, emitted by encrypt
\* (in this call or another) or accepted by decrypt; and the IVs emitted by
\* encrypt differ pairwise in their bytes as well.
C12_EncryptFresh ==
    \A i \in EncryptPassed :
        /\ i <= Len(usedIVs[Instance])
        /\ usedIVs[Instance][i] = passed[i].iv
        /\ ~includes(SubSeq(usedIVs[Instance], 1, i - 1), passed[i].iv)
        /\ \A j \in 1..Len(passed) : j # i => passed[j].iv # passed[i].iv
        /\ \A j \in EncryptPassed :
               j # i => Base64parse(passed[j].iv) # Base64parse(passed[i].iv)

\* two IVs emitted by encrypt, after decrypt had accepted one
C12_Witness ==
    /\ Cardinality(EncryptPassed) >= 2
    /\ \E i \in EncryptPassed : \E j \in 1..(i - 1) : passed[j].op = "decrypt"

\* the call `last` describes passed the entry, sender-secret and HMAC gates
\* and found its IV unregistered
Registers == HasEntry /\ last.resolved /\ MacValid /\ last.fresh

\* C13: a call of decrypt changes the registry of its instance in exactly
\* one case: when gates 1-3 pass and the IV of my entry is not registered
\* it appends exactly that IV, whatever the call does next (return, size
\* error, tag error, failed decoding). A call that throws the not-addressed,
\* missing-key, HMAC or IV-reuse error leaves the registry unchanged, and no
\* call of decrypt changes the registry of another instance.
C13_DecryptFrame ==
    /\ [](Decrypted =>
            /\ usedIVs[last.me] = IF Registers
                                  THEN Append(last.before, MyEntry.iv)
                                  ELSE last.before
            /\ last.status \in {"NotForMe", "MissingKey", "HMAC", "IVReuse"}
                  => usedIVs[last.me] = last.before
            /\ last.status \in {"Size", "Tag", "return"} => Registers)
    /\ [][last'.op = "decrypt"
            => /\ \A q \in Names \ {last'.me} : usedIVs'[q] = usedIVs[q]
               /\ last'.before = usedIVs[last'.me] \/ <<last, usedIVs>>' = <<last, usedIVs>>]_vars

\* a call that failed the tag check left its IV registered
C13_Witness ==
    /\ Decrypted /\ last.status = "Tag" /\ Registers
    /\ usedIVs[last.me][Len(usedIVs[last.me])] = MyEntry.iv

\* the call `last` describes is an encrypt; Made is the envelope it returned
Encrypted == last.op = "encrypt"

Made == wire[1].message

\* the labels of the supplied recipients that have a resolved secret
Resolved(recipients) ==
    {recipients[i].nickname :
        i \in {j \in 1..Len(recipients) : recipients[j].mpSecretKey # NoKey}}

\* the padded plaintext an envelope was made from, for some padding drawn
IsPadded(bytes, plaintext) ==
    \E pad \in 0..(NPad - 1) : bytes = Utf8parse(plaintext) \o Random(PadLen, pad)

\* C14: the envelope encrypt returns has type 'message', a tag and exactly
\* one entry per supplied recipient with a resolved secret, under that
\* recipient's label, with a ciphertext of the padded plaintext under that
\* recipient's key, a 12-byte IV and a MAC; the MAC input and the tag input
\* are built from these entries alone, so a recipient without a resolved
\* secret has no entry and adds nothing to either.
C14_EnvelopeShape ==
    Encrypted =>
        LET to == Resolved(last.supplied)
            order == EncryptOrder(wire[1])
            key(name) == Buddy(last.me, name, TRUE).mpSecretKey
        IN  /\ DOMAIN Made = {"type", "text", "tag"}
            /\ Made.type = "message"
            /\ DOMAIN Made.text = to
            /\ wire[1].to = to
            /\ \A name \in to :
                  /\ DOMAIN Made.text[name] = {"message", "iv", "hmac"}
                  /\ Len(Base64parse(Made.text[name].iv)) = IVLen
                  /\ IsPadded(decryptAES(Made.text[name].message, key(name).message,
                                         Made.text[name].iv), wire[1].plaintext)
                  /\ Made.text[name].hmac = HMAC(HmacInput(Made.text, order), key(name).hmac)
            /\ \E pad \in 0..(NPad - 1) :
                  Made.tag = createMessageTag(
                      TagInput(Utf8parse(wire[1].plaintext) \o Random(PadLen, pad),
                               Made.text, order))

\* encrypt was given a recipient with a secret and one without
C14_Witness ==
    /\ Encrypted
    /\ Resolved(last.supplied) # {}
    /\ \E i \in 1..Len(last.supplied) : last.supplied[i].mpSecretKey = NoKey
    /\ DOMAIN Made.text = Resolved(last.supplied)

\* the orders in which a list can be supplied
Orderings(list) ==
    {[i \in 1..Len(list) |-> list[f[i]]] :
        f \in {g \in [1..Len(list) -> 1..Len(list)] :
                  \A i, j \in 1..Len(list) : i # j => g[i] # g[j]}}

\* the labels of the entries, in the order of the MAC input
MacOrder(text, hmac, key) ==
    {order \in Orderings(ObjectKeys(text)) : hmac = HMAC(HmacInput(text, order), key)}

\* C15: encrypt processes the recipients in the order of their labels,
\* whatever the order in which they were supplied: with the same random
\* draws, every permutation of the supplied list gives the envelope that was
\* returned, with the same MACs and the same tag, and the MAC input is
\* built in the order localeCompare gives the labels.
C15_OrderInsensitive ==
    Encrypted =>
        /\ \E pad \in 0..(NPad - 1) :
             \E ivs \in [1..Cardinality(Resolved(last.supplied)) -> 0..(NIV - 1)] :
                \A list \in Orderings(last.supplied) :
                    encrypt(wire[1].plaintext, list, pad, ivs, <<>>).encrypted = Made
        /\ \A name \in DOMAIN Made.text :
             \A order \in MacOrder(Made.text, Made.text[name].hmac,
                                    Buddy(last.me, name, TRUE).mpSecretKey.hmac) :
                \A i, j \in 1..Len(order) : i < j => localeCompare(order[i], order[j]) < 0

\* encrypt was given two recipients with secrets, the later label first
C15_Witness ==
    /\ Encrypted
    /\ Len(last.supplied) = 2
    /\ Resolved(last.supplied) = {"a", "B"}
    /\ last.supplied[1].nickname = "B"
    /\ MacOrder(Made.text, Made.text["B"].hmac,
                Buddy(last.me, "B", TRUE).mpSecretKey.hmac) = {<<"a", "B">>}

\* p's decrypt of a copy of the envelope made by encrypt, carrying for p
\* the IV of the genuine envelope, has just failed the size or the tag check
Consumed(p) ==
    /\ Decrypted /\ last.me = p
    /\ last.status \in {"Size", "Tag"}
    /\ wire[1].kind = "encrypt" /\ last.msg # 1
    /\ p \in DOMAIN wire[1].message.text
    /\ MyEntry.iv = wire[1].message.text[p].iv

\* the call `last` describes is p's decrypt of the genuine envelope, with
\* the sender's secret
Genuine(p) == Decrypted /\ last.me = p /\ last.msg = 1 /\ last.resolved

\* C16: once a decrypt of p has passed the HMAC and freshness checks and
\* failed the size or the tag check, the IV is consumed: every later decrypt
\* by p of the genuine, unaltered envelope fails with the IV-reuse error,
\* in particular none returns.
C16_IVConsumed ==
    \A p \in Names : [](Consumed(p) => [](Genuine(p) => last.status = "IVReuse"))

\* the genuine envelope, never delivered to this recipient, is refused as
\* a replay
C16_Witness ==
    /\ Decrypted /\ last.msg = 1 /\ wire[1].kind = "encrypt" /\ last.resolved
    /\ last.status = "IVReuse"
    /\ <<last.me, 1>> \notin delivered
    /\ \E i \in 2..Len(wire) :
          /\ wire[i].kind = "retag"
          /\ <<last.me, i>> \notin delivered

\* the IV encodings encrypt has emitted in this instance
EncryptIVs == {passed[i].iv : i \in EncryptPassed}

\* a decrypt in progress in the instance, at the freshness check, of an
\* entry that carries an IV encrypt emitted in this same instance
OwnAtCheck(i) ==
    /\ i \in 1..Len(calls)
    /\ calls[i].op = "decrypt" /\ calls[i].pc = "check"
    /\ calls[i].iv \in EncryptIVs

\* C17: encrypt and decrypt of one instance share the registry, so decrypt
\* refuses every entry of an envelope encrypt made in the same instance: a
\* call that reaches the freshness check with such an IV goes no further
\* than the check, its next step is the IV-reuse throw, which leaves the
\* registry as it is, and no decrypt ever registers an IV that encrypt emitted.
C17_OwnEnvelopeRefused ==
    /\ [](\A i \in 1..Len(calls) :
            (calls[i].op = "decrypt" /\ calls[i].iv \in EncryptIVs) => calls[i].pc = "check")
    /\ [](\A i \in EncryptPassed : \A j \in 1..Len(passed) :
            (j > i /\ passed[j].op = "decrypt") => passed[j].iv # passed[i].iv)
    /\ [][\A i \in 1..Len(calls) :
            (OwnAtCheck(i) /\ calls' # calls)
                => (calls' = Without(calls, i) /\ usedIVs' = usedIVs /\ passed' = passed)]_vars

\* a decrypt stands at the freshness check with an IV encrypt emitted
C17_Witness == \E i \in 1..Len(calls) : OwnAtCheck(i)

\* the number of IV values the registry of the instance does not hold
Free ==
    Cardinality({seed \in 0..(NIV - 1) :
                    \A k \in 1..Len(usedIVs[Instance]) : usedIVs[Instance][k] # DrawIV(seed)})

\* an encrypt is in progress
Encrypting == calls # <<>> /\ calls[1].op = "encrypt"

\* an encrypt is in progress with fewer unregistered IV values than
\* recipients still to be processed
Starved == Encrypting /\ Free < calls[1].left

\* C18: with a fair random source, every call of encrypt that has an
\* unregistered IV value for each recipient still to be processed returns;
\* a call that has not stays in the retry loop and never returns.
C18_EncryptTerminates ==
    /\ (Encrypting /\ Free >= calls[1].left) ~> (calls = <<>>)
    /\ [][Starved => Starved']_vars

\* encrypt has drawn a registered IV and is back at the draw, with an
\* unregistered value left for each recipient
C18_Witness ==
    /\ Encrypting /\ Free >= calls[1].left
    /\ calls[1].pc = "draw" /\ calls[1].iv = DrawIV(1)
    /\ includes(usedIVs[Instance], calls[1].iv)

====
